---------------------------- MODULE Spec2Model ----------------------------
(***************************************************************************)
(* StageLync daily reports: the report pipeline QUERY -> EMAIL -> SHEET -> *)
(* RECORD of the two Cloud Run services (reports/new-users/main.py,        *)
(* reports/subscriptions/main.py), of the local runner (run.py), and the   *)
(* shared adapters they call (shared/email_utils.py, shared/sheets.py,     *)
(* shared/db.py, shared/config.py), and of the older single-file service   *)
(* (main.py at the root).                                                  *)
(*                                                                         *)
(* One behaviour is one process: a service instance handling HTTP requests *)
(* one at a time, or one invocation of the command-line runner.  The       *)
(* database, the SMTP server and the spreadsheet service are the           *)
(* environment: every call to them either raises or answers, chosen by \E. *)
(* A Python exception is modelled as the `exc' flag of the value a         *)
(* function returns; code after a raising call is skipped.                 *)
(***************************************************************************)
EXTENDS Integers, Sequences, FiniteSets, TLC

\* ------------------------------------------------------------------ bounds
MaxItems == 2      \* longest query result
MaxRuns == 2       \* pipeline runs handled by one service process
MaxDay == 2        \* last calendar day the clocks reach
TicksPerDay == 3   \* instants per day of the DATETIME column (tick 0 = 00:00:00)
MaxDbRows == 3     \* rows in the database, all tables together
MaxRecipients == 3 \* entries of a recipient argument
MaxResolutions == 2  \* reads of Config properties in one process
MaxVersion == 2    \* versions of a secret the store comes to serve
MaxDbCalls == 2    \* calls into shared/db.py in one process

\* The rows the database can hold, in the order a query returns them: the
\* users of engine4_users, and their subscriptions.
UserRoster == << "alice", "bob", "carol ann", "dave" >>
SubscriptionTypeOf(u) == IF u \in {"alice", "carol ann"} THEN "monthly" ELSE "yearly"
SubscriptionRoster ==
    [i \in 1..Len(UserRoster) |->
        [username |-> UserRoster[i], subscription_type |-> SubscriptionTypeOf(UserRoster[i])]]

\* index range of a sequence, and the image of an index-wise map
MapSeq(s, F(_)) == [i \in 1..Len(s) |-> F(s[i])]

\* ------------------------------------------------------------------- cells
\* A spreadsheet cell / message token.  Python mixes str and int in one row
\* ([date, user, len(users)]); a cell keeps both the type and the value.
Str(x) == [t |-> "str", s |-> x, n |-> 0]
Num(k) == [t |-> "int", s |-> "", n |-> k]
\* yesterday() formats a date as YYYY-MM-DD: the string for day d.
DateStr(d) == [t |-> "date", s |-> "", n |-> d]
Blank == Str("")


\* -------------------------------------------------------------- recipients
\* A comma-separated recipient string, split at its commas: one entry per
\* piece, `addr' the piece without its surrounding whitespace, `pad' whether
\* it had any.  "a@x.com, b@x.com," is <<a, padded b, empty>>.
Entry(addr, pad) == [addr |-> addr, pad |-> pad]
DefaultEmailTo == << Entry("laci@stagelync.com", FALSE) >>
EmailToSettings ==
    { DefaultEmailTo,
      << Entry("a@x.com", FALSE), Entry("b@x.com", TRUE), Entry("", FALSE) >>,
      << Entry("", FALSE) >> }

\* Python truthiness of the string: only "" is falsy ("".split(',') = ['']).
StrTruthy(raw) == ~(Len(raw) = 1 /\ raw[1].addr = "" /\ ~raw[1].pad)

\* _parse_recipients that keeps the empty entries
_parse_recipients_KeepsEmpty(to) == MapSeq(to, LAMBDA e : e.addr)

\* [email.strip() for email in to.split(',') if email.strip()]
_parse_recipients(to) ==
    LET kept == SelectSeq(to, LAMBDA e : e.addr # "")
    IN  MapSeq(kept, LAMBDA e : e.addr)

\* -------------------------------------------------------------------- mail
\* What the SMTP side of one send_email call does.
SmtpOutcomes == {"ok", "no_credentials", "connect", "starttls", "login", "send"}

\* A message body is the sequence of its text segments, each a fixed template
\* (`tpl', `seg') with the values formatted into it.
Seg(tpl, seg, args) == [tpl |-> tpl, seg |-> seg, args |-> args]

Subject(report_name, date) == << Str("StageLync"), Str(report_name), Str("Report -"), DateStr(date) >>

\* str.lower() of the two report names
Lower(name) ==
    CASE name = "New Users" -> "new users"
      [] name = "Subscriptions" -> "subscriptions"
      [] OTHER -> name

\* send_email that takes a failed send_message for a success
send_email_IgnoresSendFailure(to, subject, body, smtp) ==
    LET recipients == _parse_recipients(to)
    IN  IF recipients = <<>> THEN [ok |-> FALSE, sent |-> <<>>, session |-> FALSE]
        ELSE IF smtp = "no_credentials" THEN [ok |-> FALSE, sent |-> <<>>, session |-> FALSE]
        ELSE IF smtp \notin {"ok", "send"} THEN [ok |-> FALSE, sent |-> <<>>, session |-> TRUE]
        ELSE [ok |-> TRUE,
              sent |-> IF smtp = "send" THEN <<>>
                       ELSE << [to |-> recipients, subject |-> subject, body |-> body] >>,
              session |-> TRUE]

\* send_email: returns the boolean and the messages handed to the transport.
\* Every statement is inside try/except Exception: nothing propagates.
send_email(to, subject, body, smtp) ==
    LET recipients == _parse_recipients(to)
    IN  IF recipients = <<>> THEN [ok |-> FALSE, sent |-> <<>>, session |-> FALSE]
        ELSE IF smtp = "no_credentials" THEN [ok |-> FALSE, sent |-> <<>>, session |-> FALSE]
        ELSE IF smtp # "ok" THEN [ok |-> FALSE, sent |-> <<>>, session |-> TRUE]
        ELSE [ok |-> TRUE,
              sent |-> << [to |-> recipients, subject |-> subject, body |-> body] >>,
              session |-> TRUE]

\* ReportBody that writes the total line for an empty list too
ReportBody_TotalAlways(report_name, date, lines) ==
    IF lines # <<>>
    THEN << Seg("report", "intro", << Str(report_name), DateStr(date) >>) >>
         \o MapSeq(lines, LAMBDA l : Seg("report", "item", l))
         \o << Seg("report", "total", << Num(Len(lines)) >>) >>
    ELSE << Seg("report", "nodata", << Str(Lower(report_name)), DateStr(date) >>),
            Seg("report", "total", << Num(0) >>) >>

\* email_utils.send_report_email, default item formatter
ReportBody(report_name, date, lines) ==
    IF lines # <<>>
    THEN << Seg("report", "intro", << Str(report_name), DateStr(date) >>) >>
         \o MapSeq(lines, LAMBDA l : Seg("report", "item", l))
         \o << Seg("report", "total", << Num(Len(lines)) >>) >>
    ELSE << Seg("report", "nodata", << Str(Lower(report_name)), DateStr(date) >>) >>

send_report_email(report_name, date, lines, to, email_to_setting, smtp) ==
    LET to1 == IF StrTruthy(to) THEN to ELSE email_to_setting
    IN  send_email(to1, Subject(report_name, date), ReportBody(report_name, date, lines), smtp)

\* ------------------------------------------------------------------ sheets
\* The calls of one SHEET step that raise to their caller when they fail.
\* Each is issued at most once in a step, so the call that fails is named.
SheetCalls ==
    {"authorize", "open", "create", "row_values", "append_row:RAW",
     "append_row:USER_ENTERED", "append_rows:USER_ENTERED"}

\* The spreadsheet service as one step sees it.  `ws' is the rows of sheet1,
\* `exists' whether the named spreadsheet exists, `client' the cached _client,
\* `failing' the call that raises when it is reached ("none": no call does),
\* `share_fails' the share calls (first, second, ...) that raise, `shared'
\* the addresses given access, `log' the calls issued, `exc' an exception in
\* flight, `ret' the step's return value.
SheetEnv(ws, exists, client, failing, share_fails) ==
    [ws |-> ws, exists |-> exists, client |-> client, failing |-> failing,
     share_fails |-> share_fails, shares |-> 0, shared |-> <<>>,
     log |-> <<>>, exc |-> FALSE, ret |-> FALSE]

\* one call to the service
Api(S, call) ==
    [S EXCEPT !.log = Append(@, call), !.exc = (call = S.failing)]

get_sheets_client(S) ==
    IF S.exc \/ S.client THEN S
    ELSE LET T == Api(S, "authorize")
         IN  IF T.exc THEN T ELSE [T EXCEPT !.client = TRUE]

\* for email in emails: try: spreadsheet.share(...) except Exception: log
RECURSIVE ShareEach(_, _)
ShareEach(S, emails) ==
    IF emails = <<>> THEN S
    ELSE LET k == S.shares + 1
             T == [S EXCEPT !.shares = k,
                            !.log = Append(@, IF k \in S.share_fails THEN "share:raised"
                                              ELSE "share")]
         IN  ShareEach(IF k \in S.share_fails THEN T
                       ELSE [T EXCEPT !.shared = Append(@, Head(emails))],
                       Tail(emails))

\* _share_spreadsheet without the try: around spreadsheet.share
_share_spreadsheet_Raises(S, share_with) ==
    IF S.exc THEN S
    ELSE LET R == ShareEach(S, _parse_recipients(share_with))
         IN  [R EXCEPT !.exc = (S.share_fails \cap (1..R.shares) # {})]

_share_spreadsheet(S, share_with) ==
    IF S.exc THEN S ELSE ShareEach(S, _parse_recipients(share_with))

\* share_with = <<>> stands for None (the runner passes no address)
get_or_create_spreadsheet(S, share_with) ==
    LET C == get_sheets_client(S)
        O == IF C.exc THEN C ELSE Api(C, "open")
    IN  IF O.exc \/ O.exists THEN O
        ELSE \* gspread.SpreadsheetNotFound
             LET N == Api(O, "create")
             IN  IF N.exc THEN N
                 ELSE LET M == [N EXCEPT !.exists = TRUE, !.ws = <<>>]
                      IN  IF share_with # <<>> /\ StrTruthy(share_with)
                          THEN _share_spreadsheet(M, share_with)
                          ELSE M

\* worksheet.append_row(row) / worksheet.append_rows(rows) of gspread
WsAppend(S, call, rows) ==
    IF S.exc THEN S
    ELSE LET T == Api(S, call)
         IN  IF T.exc THEN T ELSE [T EXCEPT !.ws = @ \o rows]

\* ensure_headers that writes the header row whatever row 1 holds
ensure_headers_AlwaysWrites(S, headers) ==
    IF S.exc THEN S
    ELSE LET T == Api(S, "row_values")
         IN  IF T.exc THEN T ELSE WsAppend(T, "append_row:RAW", << headers >>)

ensure_headers(S, headers) ==
    IF S.exc THEN S
    ELSE LET T == Api(S, "row_values")
         IN  IF T.exc THEN T
             ELSE IF T.ws = <<>> THEN WsAppend(T, "append_row:RAW", << headers >>)
             ELSE T

append_row(S, row) == WsAppend(S, "append_row:USER_ENTERED", << row >>)

append_rows(S, rows) ==
    IF rows = <<>> THEN S ELSE WsAppend(S, "append_rows:USER_ENTERED", rows)

\* `return v' at the end of a function body: reached only without exception
Return(S, v) == IF S.exc THEN S ELSE [S EXCEPT !.ret = v]

\* try: ... return True / except Exception: return False
\* row_formatter is the caller's function from an item to its row
save_report_to_sheet(S, date, items, headers, row_formatter, share_with) ==
    LET A == ensure_headers(get_or_create_spreadsheet(S, share_with), headers)
        no_data_row == << DateStr(date) >> \o [i \in 1..(Len(headers) - 1) |-> Str("(no data)")]
        B == IF items # <<>>
             THEN append_rows(A, [i \in 1..Len(items) |-> row_formatter[items[i]]])
             ELSE append_row(A, no_data_row)
    IN  IF B.exc THEN [B EXCEPT !.exc = FALSE, !.ret = FALSE] ELSE [B EXCEPT !.ret = TRUE]

\* ------------------------------------------------------------ report code
None == [t |-> "none", s |-> "", n |-> 0]
Bool(b) == [t |-> "bool", s |-> "", n |-> IF b THEN 1 ELSE 0]
\* datetime.isoformat() of the instant run number k started
Timestamp(k) == [t |-> "datetime", s |-> "", n |-> k]

ReportName(report) == IF report = "new-users" THEN "New Users" ELSE "Subscriptions"

NewUsersHeaders == << Str("Date"), Str("Username"), Str("Daily Total") >>
SubscriptionsHeaders ==
    << Str("Date"), Str("Username"), Str("Subscription Type"), Str("Daily Total") >>
Headers(report) == IF report = "new-users" THEN NewUsersHeaders ELSE SubscriptionsHeaders

\* What the database can answer: new-users rows are usernames (row[0]),
\* subscriptions rows are dictionaries.
QueryResults(report) ==
    LET roster == IF report = "new-users" THEN UserRoster ELSE SubscriptionRoster
    IN  { SubSeq(roster, 1, k) : k \in 0..MaxItems }

\* reports/new-users/main.py
NewUsersSendReportEmail(users, date, EMAIL_TO, email_to_setting, smtp) ==
    send_report_email("New Users", date,
                      MapSeq(users, LAMBDA u : << Str(u) >>),
                      EMAIL_TO, email_to_setting, smtp)

\* def row_formatter(user): return [date, user, '']
row_formatter(date) ==
    [user \in { UserRoster[i] : i \in 1..Len(UserRoster) } |->
        << DateStr(date), Str(user), Blank >>]

\* NewUsersSaveToSheets that writes the count on every row
NewUsersSaveToSheets_CountOnEveryRow(S, users, date, EMAIL_TO) ==
    IF users # <<>>
    THEN LET A == ensure_headers(get_or_create_spreadsheet(S, EMAIL_TO), NewUsersHeaders)
             B == append_row(A, << DateStr(date), Str(Head(users)), Num(Len(users)) >>)
             C == IF Tail(users) # <<>>
                  THEN append_rows(B, MapSeq(Tail(users),
                                             LAMBDA u : << DateStr(date), Str(u),
                                                           Num(Len(users)) >>))
                  ELSE B
         IN  Return(C, TRUE)
    ELSE save_report_to_sheet(S, date, <<>>, NewUsersHeaders,
                              row_formatter(date), EMAIL_TO)

NewUsersSaveToSheets(S, users, date, EMAIL_TO) ==
    IF users # <<>>
    THEN LET first_user == Head(users)
             rest_users == Tail(users)
             A == ensure_headers(get_or_create_spreadsheet(S, EMAIL_TO), NewUsersHeaders)
             B == append_row(A, << DateStr(date), Str(first_user), Num(Len(users)) >>)
             C == IF rest_users # <<>>
                  THEN append_rows(B, MapSeq(rest_users,
                                             LAMBDA u : << DateStr(date), Str(u), Blank >>))
                  ELSE B
         IN  Return(C, TRUE)
    ELSE save_report_to_sheet(S, date, <<>>, NewUsersHeaders,
                              row_formatter(date), EMAIL_TO)

\* reports/subscriptions/main.py
SubscriptionsBody(subscriptions, date) ==
    IF subscriptions # <<>>
    THEN << Seg("subscriptions", "intro", << DateStr(date) >>) >>
         \o MapSeq(subscriptions,
                   LAMBDA sub : Seg("subscriptions", "item",
                                    << Str(sub.username), Str(sub.subscription_type) >>))
         \o << Seg("subscriptions", "total", << Num(Len(subscriptions)) >>) >>
    ELSE << Seg("subscriptions", "nodata", << DateStr(date) >>) >>

SubscriptionsSendReportEmail(subscriptions, date, EMAIL_TO, smtp) ==
    send_email(EMAIL_TO, Subject("Subscriptions", date),
               SubscriptionsBody(subscriptions, date), smtp)

SubscriptionRowsFor(subscriptions, date) ==
    [i \in 1..Len(subscriptions) |->
        << DateStr(date), Str(subscriptions[i].username),
           Str(subscriptions[i].subscription_type),
           IF i = 1 THEN Num(Len(subscriptions)) ELSE Blank >>]

SubscriptionsNoDataRow(date) ==
    << DateStr(date), Str("(no subscriptions)"), Str("-"), Num(0) >>

\* SubscriptionsSaveToSheets that appends without the header check
SubscriptionsSaveToSheets_NoHeaderCheck(S, subscriptions, date, EMAIL_TO) ==
    LET A == get_or_create_spreadsheet(S, EMAIL_TO)
        B == IF subscriptions # <<>>
             THEN append_rows(A, SubscriptionRowsFor(subscriptions, date))
             ELSE append_row(A, SubscriptionsNoDataRow(date))
    IN  Return(B, TRUE)

SubscriptionsSaveToSheets(S, subscriptions, date, EMAIL_TO) ==
    LET A == ensure_headers(get_or_create_spreadsheet(S, EMAIL_TO), SubscriptionsHeaders)
        B == IF subscriptions # <<>>
             THEN append_rows(A, SubscriptionRowsFor(subscriptions, date))
             ELSE append_row(A, SubscriptionsNoDataRow(date))
    IN  Return(B, TRUE)

\* the two services' _last_run dictionaries
InitialLastRun == [timestamp |-> None, status |-> None, count |-> None, error |-> None]

ErrorLastRun(start_time, e) ==
    [timestamp |-> Timestamp(start_time), status |-> Str("error"), count |-> None,
     error |-> Str(e)]

NewUsersSuccessLastRun(start_time, n, sent, saved) ==
    [timestamp |-> Timestamp(start_time), status |-> Str("success"), count |-> Num(n),
     error |-> None, email_sent |-> Bool(sent), sheets_saved |-> Bool(saved)]

SubscriptionsSuccessLastRun(start_time, n, sent, saved) ==
    [timestamp |-> Timestamp(start_time), status |-> Str("success"), count |-> Num(n),
     error |-> None]

SuccessLastRun(report, start_time, n, sent, saved) ==
    IF report = "new-users" THEN NewUsersSuccessLastRun(start_time, n, sent, saved)
    ELSE SubscriptionsSuccessLastRun(start_time, n, sent, saved)

\* the dictionary run_report returns (duration_ms, a measurement, left out)
RunResult(report, date, n, sent, saved) ==
    [status |-> Str("success"), report |-> Str(report), date |-> DateStr(date),
     count |-> Num(n), email_sent |-> Bool(sent), sheets_saved |-> Bool(saved)]

\* ------------------------------------------------------- the root main.py
RootHeaders == << Str("Date"), Str("Username"), Str("Total Count") >>

\* subject and body of send_email(users)
RootSubject(date) == << Str("Daily New Users Report -"), DateStr(date) >>
RootBody(users, date) ==
    IF users # <<>>
    THEN << Seg("root", "intro", << DateStr(date) >>) >>
         \o MapSeq(users, LAMBDA u : Seg("root", "item", << Str(u) >>))
         \o << Seg("root", "total", << Num(Len(users)) >>) >>
    ELSE << Seg("root", "nodata", << DateStr(date) >>) >>

\* The spreadsheet service as save_to_google_sheets sees it: `fail_at' is the
\* number of the call that raises (0: none does), counted as they are issued.
RootSheetEnv(ws, exists, fail_at) ==
    [ws |-> ws, exists |-> exists, fail_at |-> fail_at, log |-> <<>>, exc |-> FALSE]

RootApi(S, call) ==
    IF S.exc THEN S
    ELSE [S EXCEPT !.log = Append(@, call), !.exc = (Len(S.log) + 1 = S.fail_at)]

RootAppendRow(S, row) ==
    LET T == RootApi(S, "append_row")
    IN  IF T.exc THEN T ELSE [T EXCEPT !.ws = Append(@, row)]

\* for i, user in enumerate(users): sheet.append_row([yesterday, user, count])
RECURSIVE RootAppendUsers(_, _, _, _)
RootAppendUsers(S, users, i, date) ==
    IF i > Len(users) THEN S
    ELSE RootAppendUsers(RootAppendRow(S, << DateStr(date), Str(users[i]),
                                             IF i = 1 THEN Num(Len(users)) ELSE Blank >>),
                         users, i + 1, date)

save_to_google_sheets(S, users, date) ==
    LET A == RootApi(S, "authorize")
        O == RootApi(A, "open")
        C == IF O.exc \/ O.exists THEN O
             ELSE \* gspread.SpreadsheetNotFound
                  LET N == RootApi(O, "create")
                  IN  IF N.exc THEN N
                      ELSE RootApi([N EXCEPT !.exists = TRUE, !.ws = <<>>], "share")
        G == RootApi(C, "get_all_values")
        H == IF ~G.exc /\ G.ws = <<>> THEN RootAppendRow(G, RootHeaders) ELSE G
    IN  IF users # <<>> THEN RootAppendUsers(H, users, 1, date)
        ELSE RootAppendRow(H, << DateStr(date), Str("(no new users)"), Num(0) >>)

\* the calls one save_to_google_sheets can issue, at most
RootSheetCalls == 1..(6 + MaxItems)

\* ----------------------------------------------------------- configuration
\* The Config properties that read a secret:
\*     os.getenv('MYSQL_HOST') or get_secret('mysql-host')
\* `env' is the name the property looks up, `secret' the id it passes on.
ConfigProperties ==
    {"mysql_host", "mysql_user", "mysql_password", "mysql_database",
     "smtp_user", "smtp_password"}

ConfigProperty(p) ==
    CASE p = "mysql_host" -> [env |-> "MYSQL_HOST", secret |-> "mysql-host"]
      [] p = "mysql_user" -> [env |-> "MYSQL_USER", secret |-> "mysql-user"]
      [] p = "mysql_password" -> [env |-> "MYSQL_PASSWORD", secret |-> "mysql-password"]
      [] p = "mysql_database" -> [env |-> "MYSQL_DATABASE", secret |-> "mysql-database"]
      [] p = "smtp_user" -> [env |-> "SMTP_USER", secret |-> "smtp-user"]
      [] p = "smtp_password" -> [env |-> "SMTP_PASSWORD", secret |-> "smtp-password"]

SecretIds == { ConfigProperty(p).secret : p \in ConfigProperties }

\* secret_id.upper().replace('-', '_')
UpperUnderscore(secret_id) ==
    CASE secret_id = "mysql-host" -> "MYSQL_HOST"
      [] secret_id = "mysql-user" -> "MYSQL_USER"
      [] secret_id = "mysql-password" -> "MYSQL_PASSWORD"
      [] secret_id = "mysql-database" -> "MYSQL_DATABASE"
      [] secret_id = "smtp-user" -> "SMTP_USER"
      [] secret_id = "smtp-password" -> "SMTP_PASSWORD"

SecretEnvNames == { UpperUnderscore(id) : id \in SecretIds }
CloudEnvNames == {"K_SERVICE", "CLOUD_RUN_JOB"}
EnvNames == SecretEnvNames \cup CloudEnvNames

\* os.environ maps a name to None (not set), to "" (set, empty: a line
\* `NAME=' of .env) or to a non-empty string.
Override == Str("override")
EnvValues == {None, Blank, Override}

\* Python truthiness of what os.getenv returned
Truthy(v) == v # None /\ v # Blank

\* The secrets part of an environment: every name alike but one.
SecretEnvironments ==
    { [n \in SecretEnvNames |-> IF n = k THEN v ELSE w] :
        k \in SecretEnvNames, v \in EnvValues, w \in EnvValues }

\* K_SERVICE is set by Cloud Run services, CLOUD_RUN_JOB by Cloud Run jobs
CloudEnvironments == [CloudEnvNames -> {None, Str("run")}]

Environ(secrets, cloud) ==
    [n \in EnvNames |-> IF n \in SecretEnvNames THEN secrets[n] ELSE cloud[n]]

Environments == { Environ(s, c) : s \in SecretEnvironments, c \in CloudEnvironments }

\* a local environment with every override set, but for the names in `unset'
LocalEnvironment(unset) ==
    [n \in EnvNames |-> IF n \in CloudEnvNames \cup unset THEN None ELSE Override]

\* the environments the report services and the runner are run in
ServiceEnvironments ==
    { LocalEnvironment({}), LocalEnvironment({"MYSQL_HOST"}), LocalEnvironment({"SMTP_USER"}) }

is_cloud_environment(environ) ==
    environ["K_SERVICE"] # None \/ environ["CLOUD_RUN_JOB"] # None

\* what versions/latest of a secret holds while the store is at `version'
SecretPayload(secret_id, version) == [t |-> "secret", s |-> secret_id, n |-> version]

NoCache == [id \in SecretIds |-> None]

\* One call get_secret(secret_id) under @lru_cache: `cache' is the cache
\* before the call, `store_ok' whether access_secret_version answers if it is
\* asked.  Gives the value returned or the ValueError raised, the cache after
\* the call (an exception is not cached) and whether the store was called.
Resolved(value, cache, called) ==
    [value |-> value, raised |-> "", cache |-> cache, store_called |-> called]
Unresolved(error, cache, called) ==
    [value |-> None, raised |-> error, cache |-> cache, store_called |-> called]

\* get_secret without @lru_cache
get_secret_Uncached(secret_id, environ, cache, version, store_ok) ==
    LET env_value == environ[UpperUnderscore(secret_id)]
    IN  IF Truthy(env_value) THEN Resolved(env_value, cache, FALSE)
        ELSE IF is_cloud_environment(environ)
        THEN IF store_ok
             THEN Resolved(SecretPayload(secret_id, version), cache, TRUE)
             ELSE Unresolved("Failed to get secret", cache, TRUE)
        ELSE Unresolved("not found in environment", cache, FALSE)

get_secret(secret_id, environ, cache, version, store_ok) ==
    IF cache[secret_id] # None THEN Resolved(cache[secret_id], cache, FALSE)
    ELSE LET env_value == environ[UpperUnderscore(secret_id)]
         IN  IF Truthy(env_value)
             THEN Resolved(env_value, [cache EXCEPT ![secret_id] = env_value], FALSE)
             ELSE IF is_cloud_environment(environ)
             THEN IF store_ok
                  THEN LET payload == SecretPayload(secret_id, version)
                       IN  Resolved(payload, [cache EXCEPT ![secret_id] = payload], TRUE)
                  ELSE Unresolved("Failed to get secret", cache, TRUE)
             ELSE Unresolved("not found in environment", cache, FALSE)

\* a Config property that asks the secret store before the environment
ConfigGet_SecretFirst(p, environ, cache, version, store_ok) ==
    LET id == ConfigProperty(p).secret
        env_value == environ[ConfigProperty(p).env]
    IN  IF is_cloud_environment(environ)
        THEN IF store_ok
             THEN Resolved(SecretPayload(id, version),
                           [cache EXCEPT ![id] = SecretPayload(id, version)], TRUE)
             ELSE Unresolved("Failed to get secret", cache, TRUE)
        ELSE IF Truthy(env_value) THEN Resolved(env_value, cache, FALSE)
        ELSE Unresolved("not found in environment", cache, FALSE)

\* config.<property>: os.getenv(NAME) or get_secret(id)
ConfigGet(p, environ, cache, version, store_ok) ==
    LET env_value == environ[ConfigProperty(p).env]
    IN  IF Truthy(env_value) THEN Resolved(env_value, cache, FALSE)
        ELSE get_secret(ConfigProperty(p).secret, environ, cache, version, store_ok)

\* whether config.<property> can return a value in this environment at all
CanResolve(p, environ) ==
    Truthy(environ[ConfigProperty(p).env]) \/ is_cloud_environment(environ)

DbProperties == {"mysql_host", "mysql_user", "mysql_password", "mysql_database"}
MailProperties == {"smtp_user", "smtp_password"}

\* ------------------------------------------------------------------- state
VARIABLES
    entry,          \* "http": a Cloud Run service; "cli": one run of run.py;
                    \* "root": the service of the root main.py
    report,         \* "new-users" or "subscriptions"
    EMAIL_TO,       \* the EMAIL_TO setting, read once at import
    today,          \* the wall clock's calendar day
    pc,             \* where the process is: "idle", the step about to run, "exited"
    handler,        \* the Flask handler serving the current request
    runs,           \* pipeline runs started so far
    start_time,     \* run_report's start_time
    items,          \* the query result (users / subscriptions)
    email_sent,     \* what the EMAIL step returned
    sheets_saved,   \* what the SHEET step returned
    exc,            \* str(e) of the exception raised out of run_report, "" if none
    result,         \* the dictionary run_report returned
    _last_run,      \* the module's _last_run
    response,       \* the last HTTP response sent
    worksheet,      \* rows of the spreadsheet's sheet1
    ss_exists,      \* whether the named spreadsheet exists
    _client,        \* sheets._client is set
    trace,          \* steps of the current run, in the order they were entered
    outbox,         \* messages the current run handed to the SMTP transport
    sheet_log,      \* spreadsheet calls the current run issued
    rows_at_start,  \* Len(worksheet) when the current run started
    dry_run, email_only, sheets_only,   \* run.py's flags
    exit_code,      \* run.py's exit code, -1 while running
    db_now,         \* the database server's clock, NOW()
    engine4_users,  \* the engine4_users table, in insertion order
    subscriptions_table,  \* the subscriptions table, in insertion order
    db_result,      \* the open cursor: the query executed and the rows it returned
    mail_call,      \* the last call of send_email: its arguments and what it did
    os_environ,     \* os.environ once .env is loaded: name -> None, "" or a value
    get_secret_cache,  \* the lru_cache of get_secret: secret id -> value, None if absent
    secret_version, \* the version the secret store serves as versions/latest
    resolution,     \* the last read of a Config property and what came of it
    resolutions,    \* reads of Config properties so far
    store_log,      \* per secret id, how each access_secret_version call ended
    first_value,    \* per property, the value its first successful read returned
    db_fn,          \* the function of shared/db.py being executed
    db_pc,          \* the statement it is about to execute
    connection,     \* get_connection's `connection': the number of the connection
    conn_state,     \* per connection opened, "open", "closed" or "lost"
    cursor_state,   \* the cursor of the call: "none", "open" or "closed"
    db_calls,       \* calls of execute_query / test_connection so far
    db_outcome      \* how the last call ended: what it returned or raised

reqVars == << pc, handler, runs, start_time, items, email_sent, sheets_saved, exc, result,
              response, trace, outbox, sheet_log, rows_at_start >>
sheetVars == << worksheet, ss_exists, _client >>
cliVars == << dry_run, email_only, sheets_only, exit_code >>
cfgVars == << entry, report, EMAIL_TO, os_environ >>
dbVars == << db_now, engine4_users, subscriptions_table, db_result >>
mailVars == << mail_call >>
confVars == << get_secret_cache, secret_version, resolution, resolutions, store_log,
               first_value >>
connVars == << db_fn, db_pc, connection, conn_state, cursor_state, db_calls, db_outcome >>
vars == << cfgVars, today, reqVars, _last_run, sheetVars, cliVars, dbVars, mailVars,
           confVars, connVars >>

NoResolution == [property |-> "none", value |-> None, raised |-> "", store_called |-> FALSE]

NoMailCall == [form |-> "none"]

\* a DATETIME: a calendar day and the time of day, in ticks after 00:00:00
DateTime(d, k) == [day |-> d, tick |-> k]
NoDbResult == [query |-> "none", rows |-> <<>>]

NoResponse == [code |-> 0, body |-> [status |-> None]]

\* an entry of `trace': a step was entered and ended "ok" (returned, True where
\* it returns a boolean), "false" (returned False) or "raised"; for RECORD,
\* which record was written: "ok" (success) or "error"
Ev(step, outcome) == [step |-> step, outcome |-> outcome]
NoResult == [status |-> None]

\* yesterday(): (datetime.now() - timedelta(days=1)).strftime('%Y-%m-%d')
yesterday == today - 1

\* every module imported, nothing called yet
AtRest ==
    /\ entry \in {"http", "cli", "root"}
    /\ report \in {"new-users", "subscriptions"}
    /\ EMAIL_TO \in EmailToSettings
    /\ today = 1
    /\ pc = "idle"
    /\ handler = "none"
    /\ runs = 0
    /\ start_time = 0
    /\ items = <<>>
    /\ email_sent = FALSE
    /\ sheets_saved = FALSE
    /\ exc = ""
    /\ result = NoResult
    /\ _last_run = InitialLastRun
    /\ response = NoResponse
    /\ ss_exists \in BOOLEAN
    /\ worksheet = (IF ss_exists
                    THEN << IF entry = "root" THEN RootHeaders ELSE Headers(report) >>
                    ELSE <<>>)
    /\ _client = FALSE
    /\ trace = <<>>
    /\ outbox = <<>>
    /\ sheet_log = <<>>
    /\ rows_at_start = 0
    /\ dry_run = FALSE
    /\ email_only = FALSE
    /\ sheets_only = FALSE
    /\ exit_code = -1
    /\ db_now = DateTime(0, 0)
    /\ engine4_users = <<>>
    /\ subscriptions_table = <<>>
    /\ db_result = NoDbResult
    /\ mail_call = NoMailCall
    /\ get_secret_cache = NoCache
    /\ secret_version = 1
    /\ resolution = NoResolution
    /\ resolutions = 0
    /\ store_log = [id \in SecretIds |-> <<>>]
    /\ first_value = [p \in ConfigProperties |-> None]
    /\ db_fn = "none"
    /\ db_pc = "idle"
    /\ connection = 0
    /\ conn_state = <<>>
    /\ cursor_state = "none"
    /\ db_calls = 0
    /\ db_outcome = [failed_at |-> "none", returned |-> "none", raised |-> ""]

Init ==
    /\ os_environ \in ServiceEnvironments
    /\ AtRest
    /\ entry \in {"http", "cli"}

\* get_connection reads config.mysql_host, mysql_user, mysql_password and
\* mysql_database before it connects: a ValueError unless each resolves
DbConfigured == \A p \in DbProperties : CanResolve(p, os_environ)

\* What the SMTP side of one send_email call can do in this environment:
\* config.smtp_user is read first (msg['From']), config.smtp_password in the
\* arguments of server.login.
SmtpOutcomesHere ==
    { o \in SmtpOutcomes :
        /\ o = "no_credentials" => ~Truthy(os_environ[ConfigProperty("smtp_user").env])
        /\ ~CanResolve("smtp_user", os_environ) => o = "no_credentials"
        /\ ~CanResolve("smtp_password", os_environ)
              => o \in {"no_credentials", "connect", "starttls", "login"} }

\* ------------------------------------------------------- the HTTP services
\* the locals of a run, and what the run was seen to do, before a run starts
\* and after its response is sent
NoRun ==
    /\ items' = <<>>
    /\ email_sent' = FALSE
    /\ sheets_saved' = FALSE
    /\ exc' = ""
    /\ result' = NoResult
    /\ trace' = <<>>
    /\ outbox' = <<>>
    /\ sheet_log' = <<>>

\* No operation reads a cell of a row that an earlier run wrote: ensure_headers
\* asks only whether row 1 is empty.  Once a run has answered, the data rows on
\* the sheet are kept as rows of an earlier run, their cells left out; header
\* rows are kept as they are.
EarlierRow == << Str("(earlier run)") >>
Earlier(ws) ==
    [i \in 1..Len(ws) |-> IF ws[i] = Headers(report) THEN ws[i] ELSE EarlierRow]

\* run_report up to its try: statement
StartRunReport(h) ==
    /\ entry = "http"
    /\ pc = "idle"
    /\ runs < MaxRuns
    /\ handler' = h
    /\ runs' = runs + 1
    /\ start_time' = runs + 1
    /\ pc' = "query"
    /\ NoRun
    /\ response' = NoResponse
    /\ rows_at_start' = Len(worksheet)
    /\ UNCHANGED << cfgVars, dbVars, mailVars, confVars, connVars, today, _last_run, sheetVars, cliVars >>

\* POST /
ScheduledRun == StartRunReport("scheduled_run")

\* POST /run
ManualRun == StartRunReport("manual_run")

\* except Exception as e: _last_run = {...}; raise
RunReportExcept(e) ==
    /\ exc' = e
    /\ _last_run' = ErrorLastRun(start_time, e)
    /\ pc' = "respond"

\* GetData with the query's exception swallowed: the run goes on with no rows
GetData_SwallowsError ==
    /\ entry = "http"
    /\ pc = "query"
    /\ \/ /\ items' = <<>>
          /\ trace' = Append(trace, Ev("QUERY", "raised"))
       \/ \E rows \in QueryResults(report) :
            /\ DbConfigured
            /\ items' = rows
            /\ trace' = Append(trace, Ev("QUERY", "ok"))
    /\ pc' = "email"
    /\ UNCHANGED << cfgVars, dbVars, mailVars, confVars, connVars, today, handler, runs, start_time, email_sent, sheets_saved,
                    exc, _last_run, result, response, outbox, sheet_log, rows_at_start,
                    sheetVars, cliVars >>

\* Step 1 (QUERY): get_new_users() / get_subscriptions()
GetData ==
    /\ entry = "http"
    /\ pc = "query"
    /\ \/ /\ RunReportExcept("database error")
          /\ trace' = trace \o << Ev("QUERY", "raised"), Ev("RECORD", "error") >>
          /\ UNCHANGED items
       \/ \E rows \in QueryResults(report) :
            /\ DbConfigured
            /\ items' = rows
            /\ trace' = Append(trace, Ev("QUERY", "ok"))
            /\ pc' = "email"
            /\ UNCHANGED << exc, _last_run >>
    /\ UNCHANGED << cfgVars, dbVars, mailVars, confVars, connVars, today, handler, runs, start_time, email_sent, sheets_saved,
                    result, response, outbox, sheet_log, rows_at_start, sheetVars, cliVars >>

HttpSendReportEmail(smtp) ==
    IF report = "new-users"
    THEN NewUsersSendReportEmail(items, yesterday, EMAIL_TO, EMAIL_TO, smtp)
    ELSE SubscriptionsSendReportEmail(items, yesterday, EMAIL_TO, smtp)

\* SendEmail that tries again while the send fails
SendEmail_Retries ==
    /\ entry = "http"
    /\ pc = "email"
    /\ \E smtp \in SmtpOutcomesHere :
         LET m == HttpSendReportEmail(smtp)
         IN  /\ email_sent' = m.ok
             /\ outbox' = outbox \o m.sent
             /\ trace' = Append(trace, Ev("EMAIL", IF m.ok THEN "ok" ELSE "false"))
             /\ pc' = IF m.ok THEN "sheet" ELSE "email"
    /\ UNCHANGED << cfgVars, dbVars, mailVars, confVars, connVars, today, handler, runs, start_time, items, sheets_saved, exc,
                    result, response, sheet_log, rows_at_start, _last_run, sheetVars,
                    cliVars >>

\* SendEmail whose failure raises out of run_report
SendEmail_RaisesOnFailure ==
    /\ entry = "http"
    /\ pc = "email"
    /\ \E smtp \in SmtpOutcomesHere :
         LET m == HttpSendReportEmail(smtp)
         IN  /\ email_sent' = m.ok
             /\ outbox' = outbox \o m.sent
             /\ IF m.ok
                THEN /\ trace' = Append(trace, Ev("EMAIL", "ok"))
                     /\ pc' = "sheet"
                     /\ UNCHANGED << exc, _last_run >>
                ELSE /\ trace' = trace \o << Ev("EMAIL", "false"), Ev("RECORD", "error") >>
                     /\ RunReportExcept("email error")
    /\ UNCHANGED << cfgVars, dbVars, mailVars, confVars, connVars, today, handler, runs, start_time, items, sheets_saved,
                    result, response, sheet_log, rows_at_start, sheetVars, cliVars >>

\* Step 2 (EMAIL): email_sent = send_report_email(...)
SendEmail ==
    /\ entry = "http"
    /\ pc = "email"
    /\ \E smtp \in SmtpOutcomesHere :
         LET m == HttpSendReportEmail(smtp)
         IN  /\ email_sent' = m.ok
             /\ outbox' = outbox \o m.sent
             /\ trace' = Append(trace, Ev("EMAIL", IF m.ok THEN "ok" ELSE "false"))
    /\ pc' = "sheet"
    /\ UNCHANGED << cfgVars, dbVars, mailVars, confVars, connVars, today, handler, runs, start_time, items, sheets_saved, exc,
                    result, response, sheet_log, rows_at_start, _last_run, sheetVars,
                    cliVars >>

HttpSaveToSheets(S) ==
    IF report = "new-users"
    THEN NewUsersSaveToSheets(S, items, yesterday, EMAIL_TO)
    ELSE SubscriptionsSaveToSheets(S, items, yesterday, EMAIL_TO)

\* the share calls one step can issue
ShareCalls == 1..Len(_parse_recipients(EMAIL_TO))

\* Step 3 (SHEET): sheets_saved = save_to_sheets(...)
SaveToSheets ==
    /\ entry = "http"
    /\ pc = "sheet"
    /\ \E failing \in SheetCalls \cup {"none"}, share_fails \in SUBSET ShareCalls :
         LET R == HttpSaveToSheets(SheetEnv(worksheet, ss_exists, _client, failing, share_fails))
         IN  /\ worksheet' = R.ws
             /\ ss_exists' = R.exists
             /\ _client' = R.client
             /\ sheet_log' = R.log
             /\ IF R.exc
                THEN /\ RunReportExcept("spreadsheet error")
                     /\ trace' = trace \o << Ev("SHEET", "raised"), Ev("RECORD", "error") >>
                     /\ UNCHANGED sheets_saved
                ELSE /\ sheets_saved' = R.ret
                     /\ trace' = Append(trace, Ev("SHEET", IF R.ret THEN "ok" ELSE "false"))
                     /\ pc' = "record"
                     /\ UNCHANGED << exc, _last_run >>
    /\ UNCHANGED << cfgVars, dbVars, mailVars, confVars, connVars, today, handler, runs, start_time, items, email_sent, result,
                    response, outbox, rows_at_start, cliVars >>

\* UpdateLastRun without `global _last_run': the assignment binds a local
UpdateLastRun_NoGlobal ==
    /\ entry = "http"
    /\ pc = "record"
    /\ result' = RunResult(report, yesterday, Len(items), email_sent, sheets_saved)
    /\ trace' = Append(trace, Ev("RECORD", "ok"))
    /\ pc' = "respond"
    /\ UNCHANGED << cfgVars, dbVars, mailVars, confVars, connVars, today, handler, runs, start_time, items, email_sent,
                    sheets_saved, exc, response, outbox, sheet_log, rows_at_start,
                    _last_run, sheetVars, cliVars >>

\* Step 4 (RECORD): _last_run = {...}; return {...}
UpdateLastRun ==
    /\ entry = "http"
    /\ pc = "record"
    /\ _last_run' = SuccessLastRun(report, start_time, Len(items), email_sent, sheets_saved)
    /\ result' = RunResult(report, yesterday, Len(items), email_sent, sheets_saved)
    /\ trace' = Append(trace, Ev("RECORD", "ok"))
    /\ pc' = "respond"
    /\ UNCHANGED << cfgVars, dbVars, mailVars, confVars, connVars, today, handler, runs, start_time, items, email_sent,
                    sheets_saved, exc, response, outbox, sheet_log, rows_at_start,
                    sheetVars, cliVars >>

\* the handlers' try: return jsonify(result), 200 / except: return jsonify(...), 500
ErrorBody(e) ==
    IF report = "new-users"
    THEN [status |-> Str("error"), report |-> Str("new-users"), error |-> Str(e)]
    ELSE [status |-> Str("error"), error |-> Str(e)]

scheduled_run ==
    IF exc = "" THEN [code |-> 200, body |-> result] ELSE [code |-> 500, body |-> ErrorBody(exc)]

\* manual_run answering 200 whatever happened
manual_run_Always200 ==
    IF exc = "" THEN [code |-> 200, body |-> result] ELSE [code |-> 200, body |-> ErrorBody(exc)]

manual_run ==
    IF exc = "" THEN [code |-> 200, body |-> result] ELSE [code |-> 500, body |-> ErrorBody(exc)]

Respond ==
    /\ entry = "http"
    /\ pc = "respond"
    /\ response' = IF handler = "scheduled_run" THEN scheduled_run ELSE manual_run
    /\ pc' = "idle"
    /\ handler' = "none"
    /\ NoRun
    /\ worksheet' = Earlier(worksheet)
    /\ UNCHANGED << cfgVars, dbVars, mailVars, confVars, connVars, today, runs, start_time, rows_at_start, _last_run,
                    ss_exists, _client, cliVars >>

\* GET /health
health_check ==
    [code |-> 200, body |-> [status |-> Str("healthy"), report |-> Str(report)]]

HealthCheck ==
    /\ entry = "http"
    /\ pc = "idle"
    /\ response' = health_check
    /\ UNCHANGED << cfgVars, dbVars, mailVars, confVars, connVars, today, pc, handler, runs, start_time, items, email_sent,
                    sheets_saved, exc, result, trace, outbox, sheet_log, rows_at_start,
                    _last_run, sheetVars, cliVars >>

\* GET /status
status ==
    [code |-> 200, body |-> [report |-> Str(report), last_run |-> _last_run]]

Status ==
    /\ entry = "http"
    /\ pc = "idle"
    /\ response' = status
    /\ UNCHANGED << cfgVars, dbVars, mailVars, confVars, connVars, today, pc, handler, runs, start_time, items, email_sent,
                    sheets_saved, exc, result, trace, outbox, sheet_log, rows_at_start,
                    _last_run, sheetVars, cliVars >>

\* ------------------------------------------------------------------ run.py
\* urllib.parse.quote_plus on the roster's names: a space becomes '+'
quote_plus(u) == IF u = "carol ann" THEN "carol+ann" ELSE u

\* "<'https://stagelync.com/profile/" + quote_plus(s) + "'> " + s
UserUrl(u) ==
    << Str("<'https://stagelync.com/profile/"), Str(quote_plus(u)), Str("'> "), Str(u) >>

CliSendEmail(smtp) ==
    IF report = "new-users"
    THEN send_report_email("New Users", yesterday, MapSeq(items, UserUrl),
                           EMAIL_TO, EMAIL_TO, smtp)
    ELSE send_email(EMAIL_TO, Subject("Subscriptions", yesterday),
                    SubscriptionsBody(items, yesterday), smtp)

CliNewUsersNoDataRow(date) == << DateStr(date), Str("(no new users)"), Num(0) >>

\* the body of the runner's try: around its spreadsheet calls; no share_with
CliNewUsersSheets(S, users, date) ==
    LET A == ensure_headers(get_or_create_spreadsheet(S, <<>>), NewUsersHeaders)
        B == append_row(A, << DateStr(date), Str(Head(users)), Num(Len(users)) >>)
    IN  IF users # <<>>
        THEN IF Len(users) > 1
             THEN append_rows(B, MapSeq(Tail(users),
                                        LAMBDA u : << DateStr(date), Str(u), Blank >>))
             ELSE B
        ELSE append_row(A, CliNewUsersNoDataRow(date))

CliSubscriptionsSheets(S, results, date) ==
    LET A == ensure_headers(get_or_create_spreadsheet(S, <<>>), SubscriptionsHeaders)
    IN  IF results # <<>>
        THEN append_rows(A, SubscriptionRowsFor(results, date))
        ELSE append_row(A, SubscriptionsNoDataRow(date))

\* try: ... except Exception as e: print(...)
CliSheets(S) ==
    LET R == IF report = "new-users" THEN CliNewUsersSheets(S, items, yesterday)
             ELSE CliSubscriptionsSheets(S, items, yesterday)
    IN  IF R.exc THEN [R EXCEPT !.exc = FALSE, !.ret = FALSE] ELSE [R EXCEPT !.ret = TRUE]

\* main(): parse the arguments, validate them, call the report's function
CliMain ==
    /\ entry = "cli"
    /\ pc = "idle"
    /\ exit_code = -1
    /\ \E d \in BOOLEAN, e \in BOOLEAN, s \in BOOLEAN :
         /\ dry_run' = d
         /\ email_only' = e
         /\ sheets_only' = s
         /\ IF e /\ s
            THEN /\ exit_code' = 1
                 /\ pc' = "exited"
                 /\ UNCHANGED << runs, start_time, rows_at_start >>
            ELSE /\ pc' = "query"
                 /\ runs' = runs + 1
                 /\ start_time' = runs + 1
                 /\ rows_at_start' = Len(worksheet)
                 /\ UNCHANGED exit_code
    /\ UNCHANGED << cfgVars, dbVars, mailVars, confVars, connVars, today, handler, items, email_sent, sheets_saved, exc, result,
                    response, trace, outbox, sheet_log, _last_run, sheetVars >>

\* CliQuery without `if dry_run: return True'
CliQuery_IgnoresDryRun ==
    /\ entry = "cli"
    /\ pc = "query"
    /\ \/ /\ exit_code' = 1
          /\ pc' = "exited"
          /\ trace' = Append(trace, Ev("QUERY", "raised"))
          /\ UNCHANGED items
       \/ \E rows \in QueryResults(report) :
            /\ DbConfigured
            /\ items' = rows
            /\ trace' = Append(trace, Ev("QUERY", "ok"))
            /\ pc' = "email"
            /\ UNCHANGED exit_code
    /\ UNCHANGED << cfgVars, dbVars, mailVars, confVars, connVars, today, handler, runs, start_time, email_sent, sheets_saved, exc,
                    result, response, outbox, sheet_log, rows_at_start, _last_run,
                    sheetVars, dry_run, email_only, sheets_only >>

\* Step 1: db.execute_query; except: return False; if dry_run: return True
CliQuery ==
    /\ entry = "cli"
    /\ pc = "query"
    /\ \/ /\ exit_code' = 1
          /\ pc' = "exited"
          /\ trace' = Append(trace, Ev("QUERY", "raised"))
          /\ UNCHANGED items
       \/ \E rows \in QueryResults(report) :
            /\ DbConfigured
            /\ items' = rows
            /\ trace' = Append(trace, Ev("QUERY", "ok"))
            /\ IF dry_run
               THEN exit_code' = 0 /\ pc' = "exited"
               ELSE pc' = "email" /\ UNCHANGED exit_code
    /\ UNCHANGED << cfgVars, dbVars, mailVars, confVars, connVars, today, handler, runs, start_time, email_sent, sheets_saved, exc,
                    result, response, outbox, sheet_log, rows_at_start, _last_run,
                    sheetVars, dry_run, email_only, sheets_only >>

\* Step 2: if not sheets_only: try: success = send ... except: print
CliEmail ==
    /\ entry = "cli"
    /\ pc = "email"
    /\ IF sheets_only
       THEN UNCHANGED << email_sent, outbox, trace >>
       ELSE /\ \E smtp \in SmtpOutcomesHere :
                 LET m == CliSendEmail(smtp)
                 IN  /\ email_sent' = m.ok
                     /\ outbox' = outbox \o m.sent
                     /\ trace' = Append(trace, Ev("EMAIL", IF m.ok THEN "ok" ELSE "false"))
    /\ pc' = "sheet"
    /\ UNCHANGED << cfgVars, dbVars, mailVars, confVars, connVars, today, handler, runs, start_time, items, sheets_saved, exc,
                    result, response, sheet_log, rows_at_start, _last_run, sheetVars,
                    cliVars >>

\* CliUpdateSheets whose failed spreadsheet step makes the run fail
CliUpdateSheets_FailureIsFatal ==
    /\ entry = "cli"
    /\ pc = "sheet"
    /\ IF email_only
       THEN UNCHANGED << sheets_saved, sheet_log, trace, sheetVars >>
       ELSE /\ \E failing \in SheetCalls \cup {"none"} :
                 LET R == CliSheets(SheetEnv(worksheet, ss_exists, _client, failing, {}))
                 IN  /\ worksheet' = R.ws
                     /\ ss_exists' = R.exists
                     /\ _client' = R.client
                     /\ sheet_log' = R.log
                     /\ sheets_saved' = R.ret
                     /\ trace' = Append(trace, Ev("SHEET", IF R.ret THEN "ok" ELSE "false"))
    /\ exit_code' = IF email_only \/ sheets_saved' THEN 0 ELSE 1
    /\ pc' = "exited"
    /\ UNCHANGED << cfgVars, dbVars, mailVars, confVars, connVars, today, handler, runs, start_time, items, email_sent, exc,
                    result, response, outbox, rows_at_start, _last_run, dry_run,
                    email_only, sheets_only >>

\* Step 3: if not email_only: try: ... except: print; return True; sys.exit(0)
CliUpdateSheets ==
    /\ entry = "cli"
    /\ pc = "sheet"
    /\ IF email_only
       THEN UNCHANGED << sheets_saved, sheet_log, trace, sheetVars >>
       ELSE /\ \E failing \in SheetCalls \cup {"none"} :
                 LET R == CliSheets(SheetEnv(worksheet, ss_exists, _client, failing, {}))
                 IN  /\ worksheet' = R.ws
                     /\ ss_exists' = R.exists
                     /\ _client' = R.client
                     /\ sheet_log' = R.log
                     /\ sheets_saved' = R.ret
                     /\ trace' = Append(trace, Ev("SHEET", IF R.ret THEN "ok" ELSE "false"))
    /\ exit_code' = 0
    /\ pc' = "exited"
    /\ UNCHANGED << cfgVars, dbVars, mailVars, confVars, connVars, today, handler, runs, start_time, items, email_sent, exc,
                    result, response, outbox, rows_at_start, _last_run, dry_run,
                    email_only, sheets_only >>

\* the wall clock passes midnight
Midnight ==
    /\ today < MaxDay
    /\ today' = today + 1
    /\ UNCHANGED << cfgVars, dbVars, mailVars, confVars, connVars, reqVars, _last_run, sheetVars, cliVars >>

Next ==
    \/ ScheduledRun
    \/ ManualRun
    \/ GetData
    \/ SendEmail
    \/ SaveToSheets
    \/ UpdateLastRun
    \/ Respond
    \/ HealthCheck
    \/ Status
    \/ CliMain
    \/ CliQuery
    \/ CliEmail
    \/ CliUpdateSheets
    \/ Midnight

Spec == Init /\ [][Next]_vars

\* ------------------------------------------------------------ the claims
\* what the current run was seen to do
StepRank(step) ==
    CASE step = "QUERY" -> 1 [] step = "EMAIL" -> 2 [] step = "SHEET" -> 3 [] step = "RECORD" -> 4

Did(step, outcome) == \E i \in 1..Len(trace) : trace[i] = Ev(step, outcome)
Entered(step) == \E i \in 1..Len(trace) : trace[i].step = step
NoModifiers == ~dry_run /\ ~email_only /\ ~sheets_only

\* the rows the current run added to the worksheet, and those that are data
NewRows == SubSeq(worksheet, rows_at_start + 1, Len(worksheet))
DataRows == SelectSeq(NewRows, LAMBDA r : r # Headers(report))
ItemName(item) == IF report = "new-users" THEN item ELSE item.username

\* C1: in a run of either service the steps are entered in the order QUERY,
\* EMAIL, SHEET, RECORD, each at most once; EMAIL is entered only right after
\* QUERY returned, SHEET only right after EMAIL returned, and the run hands at
\* most one message to the transport.
C1_StepsInOrder ==
    entry = "http" =>
        /\ \A i, j \in 1..Len(trace) :
             i < j => StepRank(trace[i].step) < StepRank(trace[j].step)
        /\ \A i \in 1..Len(trace) :
             trace[i].step \in {"EMAIL", "SHEET"} =>
                 /\ i > 1
                 /\ StepRank(trace[i - 1].step) = StepRank(trace[i].step) - 1
                 /\ trace[i - 1].outcome # "raised"
        /\ Len(outbox) <= 1

C1_Witness ==
    /\ entry = "http"
    /\ pc = "respond"
    /\ trace = << Ev("QUERY", "ok"), Ev("EMAIL", "ok"), Ev("SHEET", "ok"), Ev("RECORD", "ok") >>
    /\ Len(outbox) = 1

\* C2: when QUERY raises in a run of either service, the run enters neither
\* EMAIL nor SHEET (no message, no spreadsheet call, no row), _last_run is
\* overwritten by this run's record with status 'error', an error and a null
\* count, and the exception reaches the handler.
C2_QueryFailureAborts ==
    (entry = "http" /\ Did("QUERY", "raised")) =>
        /\ ~Entered("EMAIL")
        /\ ~Entered("SHEET")
        /\ outbox = <<>>
        /\ sheet_log = <<>>
        /\ Len(worksheet) = rows_at_start
        /\ _last_run.timestamp = Timestamp(start_time)
        /\ _last_run.status = Str("error")
        /\ _last_run.error # None
        /\ _last_run.count = None
        /\ pc = "respond"
        /\ exc # ""

C2_Witness ==
    /\ entry = "http"
    /\ runs = 2
    /\ Did("QUERY", "raised")
    /\ _last_run = ErrorLastRun(2, "database error")

\* C3: in a run of either service, and of the runner without modifiers, an
\* EMAIL step that fails returns False (it never raises): no message is sent,
\* the run's email_sent flag and the outcome it returns carry false, and the
\* run enters SHEET.
C3_EmailFailureNotFatal ==
    /\ ~Did("EMAIL", "raised")
    /\ (NoModifiers /\ Did("EMAIL", "false")) =>
        /\ email_sent = FALSE
        /\ outbox = <<>>
        /\ pc \in {"sheet", "record", "respond", "exited"}
        /\ pc # "sheet" => Entered("SHEET")
        /\ (entry = "http" /\ Did("RECORD", "ok")) =>
               /\ result.email_sent = Bool(FALSE)
               /\ report = "new-users" => _last_run.email_sent = Bool(FALSE)

C3_Witness ==
    /\ entry = "http"
    /\ Did("EMAIL", "false")
    /\ Did("SHEET", "ok")
    /\ Did("RECORD", "ok")
    /\ result.email_sent = Bool(FALSE)
    /\ Len(worksheet) > rows_at_start

\* C4: in a run of either service whose QUERY succeeded, a SHEET step that
\* fails is recorded as sheets_saved = false and RECORD is still done: the
\* record has status 'success' and the handler gets the normal outcome.
C4_SheetFailureNotFatal ==
    (entry = "http" /\ pc = "respond" /\ (Did("SHEET", "false") \/ Did("SHEET", "raised"))) =>
        /\ sheets_saved = FALSE
        /\ exc = ""
        /\ Did("RECORD", "ok")
        /\ _last_run.status = Str("success")
        /\ result.status = Str("success")
        /\ result.sheets_saved = Bool(FALSE)

\* C5: POST / and POST /run answer 200 with status 'success' (the outcome
\* run_report returned) exactly when run_report did not raise, and 500 with
\* status 'error' and the error's text exactly when it raised; the answer
\* depends on nothing else, so on neither of the two handlers.
C5_HandlerResponse ==
    [][(pc = "respond" /\ pc' = "idle") =>
          /\ exc = "" =>
                /\ response'.code = 200
                /\ response'.body = result
                /\ response'.body.status = Str("success")
          /\ exc # "" =>
                /\ response'.code = 500
                /\ response'.body.status = Str("error")
                /\ "error" \in DOMAIN response'.body
                /\ response'.body.error = Str(exc)]_vars

C5_Witness ==
    /\ entry = "http"
    /\ pc = "idle"
    /\ response.code = 500
    /\ response.body.error = Str("database error")

\* C6: _last_run is all-null before the first run; once a run has answered it
\* is that run's record (its timestamp, and the status and count of the
\* response); GET /status returns it, and GET /health and GET /status leave
\* it as it is.
C6_LastRunIsMostRecent ==
    /\ _last_run = InitialLastRun
    /\ [][/\ runs' = 0 => _last_run' = InitialLastRun
          /\ (entry = "http" /\ runs' > 0 /\ pc' = "idle") =>
                 _last_run'.timestamp = Timestamp(runs')
          /\ (entry = "http" /\ "last_run" \in DOMAIN response'.body) =>
                 response'.body.last_run = _last_run'
          /\ (pc = "respond" /\ pc' = "idle") =>
                 /\ _last_run' = _last_run
                 /\ _last_run.status = response'.body.status
                 /\ _last_run.count =
                       IF response'.code = 200 THEN response'.body.count ELSE None
          /\ (pc = "idle" /\ pc' = "idle") => _last_run' = _last_run]_vars

C6_Witness ==
    /\ entry = "http"
    /\ runs = 2
    /\ "last_run" \in DOMAIN response.body
    /\ response.body.last_run.timestamp = Timestamp(2)
    /\ response.body.last_run.count = None

\* C7: after every run of either service, ended in success or in error, the
\* _last_run record has the six fields timestamp, status, count, email_sent,
\* sheets_saved and error.
LastRunFields == {"timestamp", "status", "count", "email_sent", "sheets_saved", "error"}

C7_RecordHasSixFields ==
    (entry = "http" /\ runs > 0 /\ pc \in {"respond", "idle"}) =>
        DOMAIN _last_run = LastRunFields

\* C8: a SHEET step that succeeds on a non-empty result of N items adds
\* exactly N data rows, one per item in the result's order, all with the same
\* date; the first row's last column holds N, every other row's is blank.
C8_RowsPerItem ==
    (Did("SHEET", "ok") /\ items # <<>>) =>
        /\ Len(DataRows) = Len(items)
        /\ \A i \in 1..Len(DataRows) :
             LET r == DataRows[i]
             IN  /\ r[1].t = "date"
                 /\ r[1] = DataRows[1][1]
                 /\ r[2] = Str(ItemName(items[i]))
                 /\ r[Len(r)] = IF i = 1 THEN Num(Len(items)) ELSE Blank

C8_Witness ==
    /\ entry = "http"
    /\ report = "new-users"
    /\ Did("SHEET", "ok")
    /\ items = << "alice", "bob" >>
    /\ DataRows = << << DateStr(1), Str("alice"), Num(2) >>,
                     << DateStr(1), Str("bob"), Blank >> >>

\* C9: on an empty result the EMAIL step sends one message (none when the send
\* fails) whose body is the 'no data' sentence alone, and the SHEET step, after
\* the header check, appends one placeholder row (none when it fails) and no
\* other data row.
Placeholders == {"(no data)", "(no subscriptions)", "(no new users)"}

C9_EmptyResult ==
    (Did("QUERY", "ok") /\ items = <<>>) =>
        /\ Did("EMAIL", "ok") =>
               /\ Len(outbox) = 1
               /\ Len(outbox[1].body) = 1
               /\ outbox[1].body[1].seg = "nodata"
        /\ Did("EMAIL", "false") => outbox = <<>>
        /\ ~Entered("EMAIL") => outbox = <<>>
        /\ Len(DataRows) <= 1
        /\ \A i \in 1..Len(DataRows) :
               /\ DataRows[i][1].t = "date"
               /\ DataRows[i][2].s \in Placeholders
        /\ Did("SHEET", "ok") =>
               /\ Len(DataRows) = 1
               /\ \E i, j \in 1..Len(sheet_log) :
                    /\ i < j
                    /\ sheet_log[i] = "row_values"
                    /\ sheet_log[j] = "append_row:USER_ENTERED"
               /\ \A i \in 1..Len(sheet_log) : sheet_log[i] # "append_rows:USER_ENTERED"

C9_Witness ==
    /\ entry = "http"
    /\ Did("QUERY", "ok")
    /\ items = <<>>
    /\ Did("EMAIL", "ok")
    /\ Did("SHEET", "ok")
    /\ Len(outbox) = 1
    /\ Len(DataRows) = 1

\* ------------------------------------------------------------ the database
\* a < b on DATETIME values
DateTimeLess(a, b) == a.day < b.day \/ (a.day = b.day /\ a.tick < b.tick)

\* CURDATE(): the DATE part of NOW()
CURDATE(now) == now.day

\* a DATE compared with a DATETIME column is that day at 00:00:00
DateAsDateTime(d) == DateTime(d, 0)

\* the WHERE clause with an upper bound that lets midnight of CURDATE() in
CreatedYesterday_ClosedWindow(col, now) ==
    /\ ~DateTimeLess(col, DateAsDateTime(CURDATE(now) - 1))
    /\ ~DateTimeLess(DateAsDateTime(CURDATE(now)), col)

\* WHERE col >= CURDATE() - INTERVAL 1 DAY AND col < CURDATE()
CreatedYesterday(col, now) ==
    /\ ~DateTimeLess(col, DateAsDateTime(CURDATE(now) - 1))
    /\ DateTimeLess(col, DateAsDateTime(CURDATE(now)))

\* the orders in which the members of a finite set can come
Orderings(S) ==
    { o \in [1..Cardinality(S) -> S] : \A a, b \in 1..Cardinality(S) : a # b => o[a] # o[b] }

\* get_new_users: SELECT username FROM engine4_users WHERE ...; there is no
\* ORDER BY, so the rows come in any order; users = [row[0] for row in results]
get_new_users(users, now) ==
    LET selected == { i \in 1..Len(users) : CreatedYesterday(users[i].creation_date, now) }
    IN  { [k \in 1..Cardinality(selected) |-> users[o[k]].username] :
            o \in Orderings(selected) }

\* get_subscriptions: subscriptions s JOIN engine4_users u ON s.user_id =
\* u.user_id WHERE ... ORDER BY s.created_at DESC, rows as dictionaries; rows
\* with equal created_at come in any order
get_subscriptions(subs, users, now) ==
    LET selected == { p \in (1..Len(subs)) \X (1..Len(users)) :
                        /\ subs[p[1]].user_id = users[p[2]].user_id
                        /\ CreatedYesterday(subs[p[1]].created_at, now) }
        sorted == { o \in Orderings(selected) :
                      \A a, b \in 1..Cardinality(selected) :
                          a < b => ~DateTimeLess(subs[o[a][1]].created_at,
                                                 subs[o[b][1]].created_at) }
    IN  { [k \in 1..Cardinality(selected) |->
              [username |-> users[o[k][2]].username,
               subscription_type |-> subs[o[k][1]].subscription_type,
               created_at |-> subs[o[k][1]].created_at]] : o \in sorted }

\* everything but the database
appVars == << cfgVars, today, reqVars, _last_run, sheetVars, cliVars >>

DbRows == Len(engine4_users) + Len(subscriptions_table)

\* a user signs up: a row is inserted with creation_date = NOW()
InsertUser ==
    /\ db_result = NoDbResult
    /\ DbRows < MaxDbRows
    /\ engine4_users' = Append(engine4_users,
                               [user_id |-> Len(engine4_users) + 1,
                                username |-> UserRoster[Len(engine4_users) + 1],
                                creation_date |-> db_now])
    /\ UNCHANGED << db_now, subscriptions_table, db_result, appVars, mailVars, confVars, connVars >>

\* a subscription is created for user_id uid (0: no user has that id)
InsertSubscription ==
    /\ report = "subscriptions"
    /\ db_result = NoDbResult
    /\ DbRows < MaxDbRows
    /\ \E uid \in 0..Len(engine4_users) :
         subscriptions_table' =
             Append(subscriptions_table,
                    [user_id |-> uid,
                     subscription_type |-> IF uid = 0 THEN "monthly"
                                           ELSE SubscriptionTypeOf(UserRoster[uid]),
                     created_at |-> db_now])
    /\ UNCHANGED << db_now, engine4_users, db_result, appVars, mailVars, confVars, connVars >>

\* the database server's clock advances; while a cursor is open the model
\* holds the clock and the tables still, so that what the statement returned
\* can be compared with what it read
DbClockTick ==
    /\ db_result = NoDbResult
    /\ db_now.day < MaxDay \/ db_now.tick < TicksPerDay - 1
    /\ db_now' = IF db_now.tick < TicksPerDay - 1
                 THEN DateTime(db_now.day, db_now.tick + 1)
                 ELSE DateTime(db_now.day + 1, 0)
    /\ UNCHANGED << engine4_users, subscriptions_table, db_result, appVars, mailVars, confVars, connVars >>

\* new-users: results = db.execute_query(query)
ExecuteNewUsersQuery ==
    /\ report = "new-users"
    /\ db_result = NoDbResult
    /\ \E rows \in get_new_users(engine4_users, db_now) :
         db_result' = [query |-> "new-users", rows |-> rows]
    /\ UNCHANGED << db_now, engine4_users, subscriptions_table, appVars, mailVars, confVars, connVars >>

\* subscriptions: results = db.execute_query(query, dictionary=True)
ExecuteSubscriptionsQuery ==
    /\ report = "subscriptions"
    /\ db_result = NoDbResult
    /\ \E rows \in get_subscriptions(subscriptions_table, engine4_users, db_now) :
         db_result' = [query |-> "subscriptions", rows |-> rows]
    /\ UNCHANGED << db_now, engine4_users, subscriptions_table, appVars, mailVars, confVars, connVars >>

\* execute_query returns: the cursor and the connection are closed
CloseCursor ==
    /\ db_result # NoDbResult
    /\ db_result' = NoDbResult
    /\ UNCHANGED << db_now, engine4_users, subscriptions_table, appVars, mailVars, confVars, connVars >>

\* the services at rest, their database in use
InitQuery ==
    /\ Init
    /\ os_environ = LocalEnvironment({})
    /\ entry = "http"
    /\ EMAIL_TO = DefaultEmailTo
    /\ ~ss_exists

NextQuery ==
    \/ InsertUser
    \/ InsertSubscription
    \/ DbClockTick
    \/ ExecuteNewUsersQuery
    \/ ExecuteSubscriptionsQuery
    \/ CloseCursor

SpecQuery == InitQuery /\ [][NextQuery]_vars

\* seconds-like instants on one line: day d, tick k is instant d * TicksPerDay + k
Instant(t) == t.day * TicksPerDay + t.tick
InWindow(t, D) == (D - 1) * TicksPerDay <= Instant(t) /\ Instant(t) < D * TicksPerDay
Returned(row) == \E k \in 1..Len(db_result.rows) : db_result.rows[k] = row
JoinedRow(s, u) ==
    [username |-> u.username, subscription_type |-> s.subscription_type,
     created_at |-> s.created_at]

\* C10: with D the database's current date when the query runs, a row with
\* timestamp t (for subscriptions: a row joined with its user) is returned if
\* and only if D-1 00:00:00 <= t < D 00:00:00, once per row, for the new-users
\* and for the subscriptions query; subscriptions come latest first.
C10_QueryWindow ==
    LET D == db_now.day
        users == engine4_users
        subs == subscriptions_table
    IN  /\ db_result.query = "new-users" =>
           /\ \A i \in 1..Len(users) :
                Returned(users[i].username) <=> InWindow(users[i].creation_date, D)
           /\ Len(db_result.rows) =
                Cardinality({ i \in 1..Len(users) : InWindow(users[i].creation_date, D) })
        /\ db_result.query = "subscriptions" =>
           /\ \A i \in 1..Len(subs), j \in 1..Len(users) :
                subs[i].user_id = users[j].user_id =>
                    (Returned(JoinedRow(subs[i], users[j])) <=> InWindow(subs[i].created_at, D))
           /\ Len(db_result.rows) =
                Cardinality({ p \in (1..Len(subs)) \X (1..Len(users)) :
                                /\ subs[p[1]].user_id = users[p[2]].user_id
                                /\ InWindow(subs[p[1]].created_at, D) })
           /\ \A a, b \in 1..Len(db_result.rows) :
                a < b => Instant(db_result.rows[a].created_at)
                            >= Instant(db_result.rows[b].created_at)

\* a subscription made at exactly D-1 00:00:00 is returned, one made at exactly
\* D 00:00:00 is not
C10_Witness ==
    /\ db_result.query = "subscriptions"
    /\ db_now.day = 2
    /\ Len(subscriptions_table) = 2
    /\ subscriptions_table[1].created_at = DateTime(1, 0)
    /\ subscriptions_table[2].created_at = DateTime(2, 0)
    /\ subscriptions_table[1].user_id = 1
    /\ subscriptions_table[2].user_id = 1
    /\ db_result.rows = << JoinedRow(subscriptions_table[1], engine4_users[1]) >>

\* the calls of the current run that write data rows (the header append is RAW)
DataAppends ==
    SelectSeq(sheet_log,
              LAMBDA c : c \in {"append_row:USER_ENTERED", "append_rows:USER_ENTERED"})

\* C11: a run whose SHEET step succeeds with more than one data row to write
\* (N > 1) writes all of them by exactly one batched append call: one data
\* update per run, in the services and in the command-line runner.
C11_OneBatchedAppend ==
    (Did("SHEET", "ok") /\ Len(items) > 1) =>
        DataAppends = << "append_rows:USER_ENTERED" >>

\* positions in the current run's call log
LogAt(call) == { i \in 1..Len(sheet_log) : sheet_log[i] = call }
DataAppendAt ==
    LogAt("append_row:USER_ENTERED") \cup LogAt("append_rows:USER_ENTERED")

\* C12: in every run the header check (ensure_headers: the read of row 1 and,
\* when row 1 is empty, the header append) is made at most once, and every
\* data append of the run comes after it: exactly one header check precedes
\* the first data append.
C12_HeaderCheckBeforeAppend ==
    /\ Cardinality(LogAt("row_values")) <= 1
    /\ Cardinality(LogAt("append_row:RAW")) <= 1
    /\ \A j \in DataAppendAt :
         /\ \E i \in LogAt("row_values") : i < j
         /\ \A i \in LogAt("append_row:RAW") : i < j
    /\ \A i \in LogAt("append_row:RAW") : i - 1 \in LogAt("row_values")

C12_Witness ==
    /\ entry = "cli"
    /\ report = "subscriptions"
    /\ Did("SHEET", "ok")
    /\ Len(items) = 2
    /\ sheet_log = << "authorize", "open", "create", "row_values", "append_row:RAW",
                      "append_rows:USER_ENTERED" >>

\* the rows of the sheet that are a header row
HeaderRowsAt == { i \in 1..Len(worksheet) : worksheet[i] = Headers(report) }

\* the sheet as a SHEET step finds it when no call fails
SheetNow == SheetEnv(worksheet, ss_exists, _client, "none", {})

\* C13: ensure_headers writes the header row when row 1 is empty and writes
\* nothing otherwise, so a second application right after the first changes
\* nothing; and after any number of runs the sheet, when it has rows at all,
\* has exactly one header row, which is row 1.
C13_HeadersIdempotent ==
    LET once == ensure_headers(SheetNow, Headers(report))
        twice == ensure_headers([once EXCEPT !.log = <<>>], Headers(report))
    IN  /\ once.ws = IF worksheet = <<>> THEN << Headers(report) >> ELSE worksheet
        /\ twice.ws = once.ws
        /\ twice.log = << "row_values" >>
        /\ worksheet # <<>> => HeaderRowsAt = {1}

C13_Witness ==
    /\ entry = "http"
    /\ runs = 2
    /\ Did("SHEET", "ok")
    /\ rows_at_start >= 2
    /\ Len(worksheet) > rows_at_start
    /\ HeaderRowsAt = {1}
    /\ sheet_log[Len(sheet_log) - 1] = "row_values"

\* the share calls of the current run
ShareAt == LogAt("share") \cup LogAt("share:raised")

\* C14: a spreadsheet that is opened is never shared; one that is created is
\* shared with every address of the list, a share call that fails stopping
\* neither the calls for the remaining addresses nor the step, which goes on to
\* the header check; the runner, which passes no address, never shares.
C14_ShareFailureSwallowed ==
    /\ LogAt("create") = {} => ShareAt = {}
    /\ entry = "cli" => ShareAt = {}
    /\ \A c \in LogAt("create") :
         (entry = "http" /\ Len(sheet_log) > c) =>
             LET n == Len(_parse_recipients(EMAIL_TO))
             IN  /\ ShareAt = (c + 1)..(c + n)
                 /\ Len(sheet_log) > c + n
                 /\ sheet_log[c + n + 1] = "row_values"

\* the first of two share calls fails, the second is made, the rows are written
C14_Witness ==
    /\ entry = "http"
    /\ Did("SHEET", "ok")
    /\ Len(items) = 2
    /\ Len(DataRows) = 2
    /\ \E c \in LogAt("create") :
         /\ sheet_log[c + 1] = "share:raised"
         /\ sheet_log[c + 2] = "share"
         /\ sheet_log[c + 3] = "row_values"

\* ------------------------------------------------------- the mail adapter
\* The recipient arguments send_email is called with: a list of strings, or a
\* comma-separated string (its pieces; a string has at least one piece).
RecipientEntries == { Entry(a, p) : a \in {"a@x.com", "b@x.com", ""}, p \in BOOLEAN }

RECURSIVE EntrySeqs(_)
EntrySeqs(n) ==
    IF n = 0 THEN { <<>> }
    ELSE { Append(s, e) : s \in EntrySeqs(n - 1), e \in RecipientEntries }

RecipientInputs(form) ==
    UNION { EntrySeqs(n) : n \in (IF form = "str" THEN 1 ELSE 0)..MaxRecipients }

TestSubject == << Str("Report") >>
TestBody == << Seg("test", "text", <<>>) >>

\* one call send_email(to, subject, body) with `to' of the given form
CallSendEmail(form) ==
    \E to \in RecipientInputs(form), smtp \in SmtpOutcomes :
        LET m == send_email(to, TestSubject, TestBody, smtp)
        IN  /\ mail_call = NoMailCall
            /\ mail_call' = [form |-> form, to |-> to, smtp |-> smtp,
                             recipients |-> _parse_recipients(to),
                             ok |-> m.ok, sent |-> m.sent, session |-> m.session]
            /\ UNCHANGED << appVars, dbVars, confVars, connVars >>

SendEmailToString == CallSendEmail("str")
SendEmailToList == CallSendEmail("list")

\* the caller goes on with the boolean it got
SendEmailReturns ==
    /\ mail_call # NoMailCall
    /\ mail_call' = NoMailCall
    /\ UNCHANGED << appVars, dbVars, confVars, connVars >>

InitMail ==
    /\ Init
    /\ os_environ = LocalEnvironment({})
    /\ entry = "http"
    /\ report = "new-users"
    /\ EMAIL_TO = DefaultEmailTo
    /\ ~ss_exists

NextMail ==
    \/ SendEmailToString
    \/ SendEmailToList
    \/ SendEmailReturns

SpecMail == InitMail /\ [][NextMail]_vars

Called == mail_call # NoMailCall

\* C15: send_email returns a boolean whatever happens: False, with no mail
\* session opened, when the normalized recipient list is empty; False when the
\* credentials cannot be resolved or when connecting, STARTTLS, login or
\* sending fails; True exactly when the message, addressed to the normalized
\* list, was handed to the transport.
C15_SendEmailNeverRaises ==
    Called =>
        /\ mail_call.ok \in BOOLEAN
        /\ mail_call.recipients = <<>> =>
               ~mail_call.ok /\ ~mail_call.session /\ mail_call.sent = <<>>
        /\ mail_call.smtp # "ok" => ~mail_call.ok /\ mail_call.sent = <<>>
        /\ mail_call.smtp = "no_credentials" => ~mail_call.session
        /\ mail_call.ok <=> (mail_call.recipients # <<>> /\ mail_call.smtp = "ok")
        /\ mail_call.ok <=> Len(mail_call.sent) = 1
        /\ mail_call.ok => mail_call.sent[1].to = mail_call.recipients

C15_Witness ==
    /\ Called
    /\ mail_call.smtp = "login"
    /\ mail_call.recipients = << "a@x.com", "b@x.com" >>
    /\ ~mail_call.ok
    /\ mail_call.session

\* the entries of the argument that are not empty once trimmed
KeptAt(to) == { i \in 1..Len(to) : to[i].addr # "" }

\* C16: for a string and for a list alike, the normalized recipient list is the
\* argument's entries in their order, trimmed, with the empty ones dropped;
\* "a@x.com, b@x.com," gives exactly a@x.com, b@x.com.
C16_RecipientsNormalized ==
    Called =>
        LET to == mail_call.to
            r == mail_call.recipients
        IN  /\ Len(r) = Cardinality(KeptAt(to))
            /\ \A k \in 1..Len(r) : r[k] # ""
            /\ \A i \in KeptAt(to) :
                 r[Cardinality({ j \in KeptAt(to) : j <= i })] = to[i].addr

C16_Witness ==
    /\ Called
    /\ mail_call.form = "str"
    /\ mail_call.to = << Entry("a@x.com", FALSE), Entry("b@x.com", TRUE), Entry("", FALSE) >>
    /\ mail_call.recipients = << "a@x.com", "b@x.com" >>

\* C17: the normalized recipient list, which becomes the To header, holds no
\* address twice.
C17_RecipientsDeduplicated ==
    Called =>
        \A i, j \in 1..Len(mail_call.recipients) :
            i # j => mail_call.recipients[i] # mail_call.recipients[j]

\* how often the current run entered a step
Times(step) == Cardinality({ i \in 1..Len(trace) : trace[i].step = step })

\* C18: in the command-line runner, whatever the query returns: with --dry-run
\* neither EMAIL nor SHEET is called, with --email-only SHEET is not called,
\* with --sheets-only EMAIL is not called, and in each of these modes QUERY is
\* called exactly once.
C18_ModifiersSkipSteps ==
    entry = "cli" =>
        /\ dry_run =>
               /\ Times("EMAIL") = 0 /\ outbox = <<>>
               /\ Times("SHEET") = 0 /\ sheet_log = <<>>
        /\ email_only => Times("SHEET") = 0 /\ sheet_log = <<>>
        /\ sheets_only => Times("EMAIL") = 0 /\ outbox = <<>>
        /\ ((dry_run \/ email_only) /\ Times("QUERY") = 1) =>
               Len(worksheet) = rows_at_start
        /\ Times("QUERY") <= 1
        /\ (pc \in {"email", "sheet"} \/ (pc = "exited" /\ ~(email_only /\ sheets_only))) =>
               Times("QUERY") = 1

C18_Witness ==
    /\ entry = "cli"
    /\ dry_run /\ ~email_only /\ ~sheets_only
    /\ pc = "exited"
    /\ Len(items) = 2
    /\ trace = << Ev("QUERY", "ok") >>

\* C19: an invocation of the runner that gives two or more of --dry-run,
\* --email-only and --sheets-only is rejected: it exits with code 1 and calls
\* neither QUERY nor EMAIL nor SHEET.
C19_ModifiersExclusive ==
    (/\ entry = "cli"
     /\ pc # "idle"
     /\ \/ dry_run /\ email_only
        \/ dry_run /\ sheets_only
        \/ email_only /\ sheets_only) =>
        /\ pc = "exited"
        /\ exit_code = 1
        /\ trace = <<>>

ReadConfigProperty ==
    /\ resolutions < MaxResolutions
    /\ \E p \in ConfigProperties, store_ok \in BOOLEAN :
         LET r == ConfigGet(p, os_environ, get_secret_cache, secret_version, store_ok)
             id == ConfigProperty(p).secret
         IN  /\ get_secret_cache' = r.cache
             /\ resolution' = [property |-> p, value |-> r.value, raised |-> r.raised,
                               store_called |-> r.store_called]
             /\ store_log' = IF r.store_called
                             THEN [store_log EXCEPT
                                     ![id] = Append(@, IF r.raised = "" THEN "ok" ELSE "raised")]
                             ELSE store_log
             /\ first_value' = IF r.raised = "" /\ first_value[p] = None
                               THEN [first_value EXCEPT ![p] = r.value]
                               ELSE first_value
    /\ resolutions' = resolutions + 1
    /\ UNCHANGED << secret_version, appVars, dbVars, mailVars, connVars >>

\* an operator adds a version to the secrets: versions/latest moves on
RotateSecrets ==
    /\ secret_version < MaxVersion
    /\ secret_version' = secret_version + 1
    /\ UNCHANGED << get_secret_cache, resolution, resolutions, store_log, first_value,
                    appVars, dbVars, mailVars, connVars >>

\* a process in any environment, nothing resolved yet
InitConfig ==
    /\ os_environ \in Environments
    /\ AtRest
    /\ entry = "http"
    /\ report = "new-users"
    /\ EMAIL_TO = DefaultEmailTo
    /\ ~ss_exists

NextConfig ==
    \/ ReadConfigProperty
    \/ RotateSecrets

SpecConfig == InitConfig /\ [][NextConfig]_vars

\* the last read: its property, the override the environment holds for it
HasRead == resolution.property # "none"
OverrideOf(p) == os_environ[ConfigProperty(p).env]
Managed == is_cloud_environment(os_environ)
FromStore(v, p) ==
    v.t = "secret" /\ v.s = ConfigProperty(p).secret /\ v.n \in 1..secret_version

C22_StoreCalledOncePerKey ==
    /\ \A id \in SecretIds : Len(store_log[id]) <= 1
    /\ HasRead /\ first_value[resolution.property] # None
         => /\ resolution.raised = ""
            /\ resolution.value = first_value[resolution.property]

\* C22 (amended): the store answers at most once per key, and is not called
\* for the key again after it answered (a call that failed is not cached and
\* is repeated by the next read); once a key has resolved every later read of
\* it returns the value first resolved.
C22_StoreAnswersOncePerKey ==
    /\ \A id \in SecretIds :
         \A i \in 1..Len(store_log[id]) :
            store_log[id][i] = "ok" => i = Len(store_log[id])
    /\ HasRead /\ first_value[resolution.property] # None
         => /\ resolution.raised = ""
            /\ resolution.value = first_value[resolution.property]

\* a second read of a key, after the secret was rotated, answered from the
\* cache with the version fetched first
C22_Witness ==
    /\ HasRead
    /\ resolutions = 2
    /\ store_log[ConfigProperty(resolution.property).secret] = << "ok" >>
    /\ ~resolution.store_called
    /\ secret_version = 2
    /\ resolution.value = SecretPayload(ConfigProperty(resolution.property).secret, 1)

\* a required setting (a database or mail credential) resolves to nothing in
\* this process
MissingSetting ==
    \E p \in DbProperties \cup MailProperties : ~CanResolve(p, os_environ)

\* C23: a missing required setting is fatal before the pipeline starts: a
\* run made with one missing never gets an answer to its QUERY and never
\* ends with status 'success'.
C23_MissingSettingIsFatal ==
    MissingSetting =>
        /\ ~Did("QUERY", "ok")
        /\ ~Did("RECORD", "ok")
        /\ result.status # Str("success")
        /\ _last_run.status # Str("success")

\* ------------------------------------------------------------ shared/db.py
\* One call of execute_query or test_connection, statement by statement.  The
\* calls that can raise are the reads of config.mysql_* (ValueError),
\* mysql.connector.connect, connection.cursor, cursor.execute and
\* cursor.fetchall / fetchone (mysql.connector.Error); when one of the last
\* three raises the server may have dropped the connection.
NoOutcome == [failed_at |-> "none", returned |-> "none", raised |-> ""]

\* get_connection that closes the connection only when its body returns
get_connection_ClosesOnReturnOnly(states, c, raised) ==
    IF ~raised /\ c # 0 /\ states[c] = "open" THEN [states EXCEPT ![c] = "closed"]
    ELSE states

\* leaving `with get_connection()', by return or by exception:
\*     finally: if connection and connection.is_connected(): connection.close()
get_connection(states, c, raised) ==
    IF c # 0 /\ states[c] = "open" THEN [states EXCEPT ![c] = "closed"] ELSE states

\* leaving `with get_cursor()': finally: cursor.close()
get_cursor(cur) == IF cur = "open" THEN "closed" ELSE cur

\* execute_query has no handler: the exception reaches the caller
execute_query(step, error) ==
    [failed_at |-> step, returned |-> "none", raised |-> error]

\* test_connection whose handler is `except mysql.connector.Error'
test_connection_CatchesDbErrorsOnly(step, error) ==
    IF error = "ValueError" THEN [failed_at |-> step, returned |-> "none", raised |-> error]
    ELSE [failed_at |-> step, returned |-> "False", raised |-> ""]

\* test_connection: except Exception as e: ... return False
test_connection(step, error) ==
    [failed_at |-> step, returned |-> "False", raised |-> ""]

\* the statement at `step' raises `error'; `lost': the connection is gone
DbRaises(step, error, lost) ==
    LET states == IF lost /\ connection # 0
                  THEN [conn_state EXCEPT ![connection] = "lost"]
                  ELSE conn_state
    IN  /\ cursor_state' = IF db_fn = "execute_query" THEN get_cursor(cursor_state)
                           ELSE cursor_state
        /\ conn_state' = get_connection(states, connection, TRUE)
        /\ db_outcome' = IF db_fn = "execute_query" THEN execute_query(step, error)
                         ELSE test_connection(step, error)
        /\ db_pc' = "returned"

DbCall(fn) ==
    /\ db_pc = "idle"
    /\ db_calls < MaxDbCalls
    /\ db_calls' = db_calls + 1
    /\ db_fn' = fn
    /\ db_pc' = "connect"
    /\ UNCHANGED << connection, conn_state, cursor_state, db_outcome,
                    appVars, dbVars, mailVars, confVars >>

\* results = db.execute_query(query)
CallExecuteQuery == DbCall("execute_query")

\* db.test_connection()
CallTestConnection == DbCall("test_connection")

\* connection = mysql.connector.connect(host=config.mysql_host, ...)
Connect ==
    /\ db_pc = "connect"
    /\ \/ /\ ~DbConfigured
          /\ DbRaises("config", "ValueError", FALSE)
          /\ UNCHANGED connection
       \/ /\ DbConfigured
          /\ DbRaises("connect", "mysql.connector.Error", FALSE)
          /\ UNCHANGED connection
       \/ /\ DbConfigured
          /\ conn_state' = Append(conn_state, "open")
          /\ connection' = Len(conn_state) + 1
          /\ db_pc' = "cursor"
          /\ UNCHANGED << cursor_state, db_outcome >>
    /\ UNCHANGED << db_fn, db_calls, appVars, dbVars, mailVars, confVars >>

\* cursor = connection.cursor(dictionary=dictionary) / conn.cursor()
OpenCursor ==
    /\ db_pc = "cursor"
    /\ \/ \E lost \in BOOLEAN : DbRaises("cursor", "mysql.connector.Error", lost)
       \/ /\ cursor_state' = "open"
          /\ db_pc' = "execute"
          /\ UNCHANGED << conn_state, db_outcome >>
    /\ UNCHANGED << db_fn, db_calls, connection, appVars, dbVars, mailVars, confVars >>

\* cursor.execute(query, params) / cursor.execute("SELECT 1")
Execute ==
    /\ db_pc = "execute"
    /\ \/ \E lost \in BOOLEAN : DbRaises("execute", "mysql.connector.Error", lost)
       \/ /\ db_pc' = "fetch"
          /\ UNCHANGED << conn_state, cursor_state, db_outcome >>
    /\ UNCHANGED << db_fn, db_calls, connection, appVars, dbVars, mailVars, confVars >>

\* results = cursor.fetchall() / cursor.fetchone()
Fetch ==
    /\ db_pc = "fetch"
    /\ \/ \E lost \in BOOLEAN : DbRaises("fetch", "mysql.connector.Error", lost)
       \/ /\ db_pc' = "return"
          /\ UNCHANGED << conn_state, cursor_state, db_outcome >>
    /\ UNCHANGED << db_fn, db_calls, connection, appVars, dbVars, mailVars, confVars >>

\* return results, through the two with blocks / cursor.close(); return True
ReturnFromDb ==
    /\ db_pc = "return"
    /\ cursor_state' = "closed"
    /\ conn_state' = get_connection(conn_state, connection, FALSE)
    /\ db_outcome' = [failed_at |-> "none",
                      returned |-> IF db_fn = "execute_query" THEN "rows" ELSE "True",
                      raised |-> ""]
    /\ db_pc' = "returned"
    /\ UNCHANGED << db_fn, db_calls, connection, appVars, dbVars, mailVars, confVars >>

\* the caller goes on: the call's locals are gone
CallerGoesOn ==
    /\ db_pc = "returned"
    /\ db_pc' = "idle"
    /\ db_fn' = "none"
    /\ connection' = 0
    /\ cursor_state' = "none"
    /\ db_outcome' = NoOutcome
    /\ UNCHANGED << conn_state, db_calls, appVars, dbVars, mailVars, confVars >>

InitDb ==
    /\ Init
    /\ entry = "http"
    /\ EMAIL_TO = DefaultEmailTo
    /\ ~ss_exists

NextDb ==
    \/ CallExecuteQuery
    \/ CallTestConnection
    \/ Connect
    \/ OpenCursor
    \/ Execute
    \/ Fetch
    \/ ReturnFromDb
    \/ CallerGoesOn

SpecDb == InitDb /\ [][NextDb]_vars

OpenConnections == { i \in 1..Len(conn_state) : conn_state[i] = "open" }
DbReturned(fn) == db_fn = fn /\ db_pc = "returned"

ServiceMessages(d) ==
    NewUsersSendReportEmail(items, d, EMAIL_TO, EMAIL_TO, "ok").sent
ServiceSheet(d) ==
    NewUsersSaveToSheets(SheetEnv(SubSeq(worksheet, 1, rows_at_start), TRUE, TRUE, "none", {}),
                         items, d, EMAIL_TO).ws

\* C26: a run of the command-line runner for new-users without modifiers
\* mails the body and appends the rows that the new-users service mails and
\* appends for the same query result, the empty one included.
C26_SamePipeline ==
    entry = "cli" /\ report = "new-users" /\ NoModifiers =>
        /\ \A i \in 1..Len(outbox) :
              \E d \in 0..MaxDay :
                 \E j \in 1..Len(ServiceMessages(d)) :
                    outbox[i].body = ServiceMessages(d)[j].body
        /\ Did("SHEET", "ok") => \E d \in 0..MaxDay : worksheet = ServiceSheet(d)

\* C27: when a run of a service has returned its result, the date in the
\* subject and in the first line of the body of the message it sent, the date
\* of every row it appended and the 'date' of its result are one and the same
\* day, wherever in the run the wall clock passed midnight.
C27_OneReportDate ==
    entry = "http" /\ pc = "respond" /\ exc = "" =>
        /\ \A i \in 1..Len(outbox) :
              /\ outbox[i].subject[4] = result.date
              /\ \E k \in 1..Len(outbox[i].body[1].args) :
                    outbox[i].body[1].args[k] = result.date
        /\ \A i \in 1..Len(DataRows) : DataRows[i][1] = result.date

\* C28: whatever spreadsheet call fails in the SHEET step of a run with N > 0
\* items, the worksheet has gained all N data rows or none.
C28_SheetAllOrNothing ==
    Entered("SHEET") /\ items # <<>> => Len(DataRows) \in {0, Len(items)}

\* C29: a run of a service that ends with status 'error' has delivered
\* nothing: it handed no message to the mail transport and appended no row.
C29_NoDeliveryOnError ==
    entry = "http" /\ pc = "respond" /\ exc # "" =>
        /\ outbox = <<>>
        /\ NewRows = <<>>

\* ------------------------------------------- the service of the root main.py
\* POST /: run_report up to its try: statement
RootRunReport ==
    /\ entry = "root"
    /\ pc = "idle"
    /\ runs < MaxRuns
    /\ runs' = runs + 1
    /\ pc' = "query"
    /\ NoRun
    /\ response' = NoResponse
    /\ rows_at_start' = Len(worksheet)
    /\ UNCHANGED << cfgVars, dbVars, mailVars, confVars, connVars, today, handler, start_time,
                    _last_run, sheetVars, cliVars >>

\* Step 1: users = get_new_users()
RootGetNewUsers ==
    /\ entry = "root"
    /\ pc = "query"
    /\ \/ /\ exc' = "database error"
          /\ trace' = Append(trace, Ev("QUERY", "raised"))
          /\ pc' = "respond"
          /\ UNCHANGED items
       \/ \E rows \in QueryResults("new-users") :
            /\ items' = rows
            /\ trace' = Append(trace, Ev("QUERY", "ok"))
            /\ pc' = "email"
            /\ UNCHANGED exc
    /\ UNCHANGED << cfgVars, dbVars, mailVars, confVars, connVars, today, handler, runs,
                    start_time, email_sent, sheets_saved, result, response, outbox,
                    sheet_log, rows_at_start, _last_run, sheetVars, cliVars >>

\* Step 2: send_email(users); nothing in it catches an exception
RootSendEmail ==
    /\ entry = "root"
    /\ pc = "email"
    /\ \E smtp \in SmtpOutcomes :
         IF smtp = "ok"
         THEN /\ outbox' = Append(outbox, [to |-> EMAIL_TO, subject |-> RootSubject(yesterday),
                                           body |-> RootBody(items, yesterday)])
              /\ trace' = Append(trace, Ev("EMAIL", "ok"))
              /\ pc' = "sheet"
              /\ UNCHANGED exc
         ELSE /\ exc' = "email error"
              /\ trace' = Append(trace, Ev("EMAIL", "raised"))
              /\ pc' = "respond"
              /\ UNCHANGED outbox
    /\ UNCHANGED << cfgVars, dbVars, mailVars, confVars, connVars, today, handler, runs,
                    start_time, items, email_sent, sheets_saved, result, response,
                    sheet_log, rows_at_start, _last_run, sheetVars, cliVars >>

\* Step 3: save_to_google_sheets(users); result = {...}
RootSaveToGoogleSheets ==
    /\ entry = "root"
    /\ pc = "sheet"
    /\ \E fail_at \in RootSheetCalls \cup {0} :
         LET R == save_to_google_sheets(RootSheetEnv(worksheet, ss_exists, fail_at),
                                        items, yesterday)
         IN  /\ worksheet' = R.ws
             /\ ss_exists' = R.exists
             /\ sheet_log' = R.log
             /\ IF R.exc
                THEN /\ exc' = "spreadsheet error"
                     /\ trace' = Append(trace, Ev("SHEET", "raised"))
                     /\ UNCHANGED result
                ELSE /\ result' = [status |-> Str("success"), users_count |-> Num(Len(items)),
                                   timestamp |-> Timestamp(runs)]
                     /\ trace' = Append(trace, Ev("SHEET", "ok"))
                     /\ UNCHANGED exc
    /\ pc' = "respond"
    /\ UNCHANGED << cfgVars, dbVars, mailVars, confVars, connVars, today, handler, runs,
                    start_time, items, email_sent, sheets_saved, response, outbox,
                    rows_at_start, _last_run, _client, cliVars >>

\* return jsonify(result), 200 / except Exception: return jsonify({...}), 500
root_run_report ==
    IF exc = "" THEN [code |-> 200, body |-> result]
    ELSE [code |-> 500, body |-> [status |-> Str("error"), error |-> Str(exc),
                                  timestamp |-> Timestamp(runs)]]

\* the rows of earlier requests, their cells left out (no call reads them)
RootEarlier(ws) ==
    [i \in 1..Len(ws) |-> IF ws[i] = RootHeaders THEN ws[i] ELSE EarlierRow]

RootRespond ==
    /\ entry = "root"
    /\ pc = "respond"
    /\ response' = root_run_report
    /\ pc' = "idle"
    /\ NoRun
    /\ worksheet' = RootEarlier(worksheet)
    /\ UNCHANGED << cfgVars, dbVars, mailVars, confVars, connVars, today, handler, runs,
                    start_time, rows_at_start, _last_run, ss_exists, _client, cliVars >>

\* GET /health
RootHealthCheck ==
    /\ entry = "root"
    /\ pc = "idle"
    /\ response' = [code |-> 200, body |-> [status |-> Str("healthy")]]
    /\ UNCHANGED << cfgVars, dbVars, mailVars, confVars, connVars, today, pc, handler, runs,
                    start_time, items, email_sent, sheets_saved, exc, result, trace,
                    outbox, sheet_log, rows_at_start, _last_run, sheetVars, cliVars >>

InitRoot ==
    /\ os_environ = LocalEnvironment({})
    /\ AtRest
    /\ entry = "root"
    /\ report = "new-users"

NextRoot ==
    \/ RootRunReport
    \/ RootGetNewUsers
    \/ RootSendEmail
    \/ RootSaveToGoogleSheets
    \/ RootRespond
    \/ RootHealthCheck
    \/ Midnight

SpecRoot == InitRoot /\ [][NextRoot]_vars

\* C30: in a request to the root service whose get_new_users succeeded,
\* save_to_google_sheets runs whether or not send_email failed.
C30_RootEmailFailureNotFatal ==
    entry = "root" /\ pc = "respond" /\ Did("QUERY", "ok") => Entered("SHEET")
============================================================================
